---- MODULE Spec2Model ----
(***************************************************************************)
(* The context codec of src/contexts/context_serde.rs: the discriminator   *)
(* of the three JSON shapes (legacy user, single-kind, multi-kind), the    *)
(* serde-derived shape parsers, the conversion of a parsed shape into a    *)
(* Context through the builders, the projection of a Context back onto a   *)
(* modern shape and its serialization.                                     *)
(*                                                                         *)
(* A JSON value is a record with one field naming its type.  A JSON object *)
(* is [obj |-> f], f a function from member names to JSON values.          *)
(***************************************************************************)
EXTENDS Integers, Sequences, FiniteSets, TLC

\* ------------------------------------------------------------------ JSON
JNull == [null |-> TRUE]
JBool(b) == [bool |-> b]
JNum(n) == [num |-> n]
JStr(s) == [str |-> s]
JArr(s) == [arr |-> s]
JObj(f) == [obj |-> f]

IsNull(v) == "null" \in DOMAIN v
IsBool(v) == "bool" \in DOMAIN v
IsStr(v) == "str" \in DOMAIN v
IsArr(v) == "arr" \in DOMAIN v
IsObj(v) == "obj" \in DOMAIN v

\* Rust's Option and Result
None == [none |-> TRUE]
Some(x) == [some |-> x]
IsSome(o) == "some" \in DOMAIN o
Ok(x) == [ok |-> x]
Err(e) == [err |-> e]
IsOk(r) == "ok" \in DOMAIN r

\* The empty map
EmptyMap == [k \in {} |-> JNull]
\* m with the member k removed
Without(m, k) == [x \in DOMAIN m \ {k} |-> m[x]]
\* m with the member k set to v (insert or overwrite)
Put(m, k, v) == [x \in DOMAIN m \cup {k} |-> IF x = k THEN v ELSE m[x]]
\* the members of n laid over those of m
Merge(m, n) == [x \in DOMAIN m \cup DOMAIN n |-> IF x \in DOMAIN n THEN n[x] ELSE m[x]]

\* ---------------------------------------------- opaque collaborator types
\* AttributeValue: a JSON-like value, carried as it was read
AttributeValue_from(v) == [attr |-> v]
AttributeValue_json(a) == a.attr
\* AttributeName / attribute reference: parsed from and printed to a string
Reference_from(s) == [ref |-> s]
Reference_string(r) == r.ref

\* Kind::try_from: a kind is neither empty nor the word "kind"
Kind_try_from(s) ==
    IF s = "" THEN Err("context kind cannot be empty")
    ELSE IF s = "kind" THEN Err("context kind cannot be 'kind'")
    ELSE Ok(s)
Kind_is_multi(k) == k = "multi"

\* ------------------------------------------------- serde field readers
\* Option<String> member: missing or null is None, a string is Some
OptString(m, k) ==
    IF k \notin DOMAIN m \/ IsNull(m[k]) THEN Ok(None)
    ELSE IF IsStr(m[k]) THEN Ok(Some(m[k].str))
    ELSE Err("invalid type: expected a string")

\* Option<bool> member
OptBool(m, k) ==
    IF k \notin DOMAIN m \/ IsNull(m[k]) THEN Ok(None)
    ELSE IF IsBool(m[k]) THEN Ok(Some(m[k].bool))
    ELSE Err("invalid type: expected a boolean")

\* String member, required
ReqString(m, k) ==
    IF k \notin DOMAIN m THEN Err("missing field")
    ELSE IF IsStr(m[k]) THEN Ok(m[k].str)
    ELSE Err("invalid type: expected a string")

\* Option<Vec<String>> read from a JSON value (Absent is passed as null)
OptStringVec(v) ==
    IF IsNull(v) THEN Ok(None)
    ELSE IF IsArr(v) /\ \A i \in 1..Len(v.arr) : IsStr(v.arr[i])
        THEN Ok(Some([i \in 1..Len(v.arr) |-> v.arr[i].str]))
    ELSE Err("invalid type: expected a sequence of strings")

\* Option<String> read from a JSON value
OptStringValue(v) ==
    IF IsNull(v) THEN Ok(None)
    ELSE IF IsStr(v) THEN Ok(Some(v.str))
    ELSE Err("invalid type: expected a string")

MemberOrNull(m, k) == IF k \in DOMAIN m THEN m[k] ELSE JNull

\* Meta, derived Deserialize: a map with the members secondary and
\* privateAttributes (others ignored), or the positional form, a sequence
\* of exactly the two fields in declaration order
Meta_deserialize(v) ==
    LET sv == IF IsObj(v) THEN MemberOrNull(v.obj, "secondary") ELSE v.arr[1]
        pv == IF IsObj(v) THEN MemberOrNull(v.obj, "privateAttributes") ELSE v.arr[2]
    IN  IF ~(IsObj(v) \/ (IsArr(v) /\ Len(v.arr) = 2))
            THEN Err("invalid type: expected struct Meta")
        ELSE IF ~IsOk(OptStringValue(sv)) THEN OptStringValue(sv)
        ELSE IF ~IsOk(OptStringVec(pv)) THEN OptStringVec(pv)
        ELSE Ok([secondary |-> OptStringValue(sv).ok,
                 private_attributes |-> OptStringVec(pv).ok])

\* Option<Meta> member "_meta"
OptMeta(m) ==
    IF "_meta" \notin DOMAIN m \/ IsNull(m["_meta"]) THEN Ok(None)
    ELSE IF IsOk(Meta_deserialize(m["_meta"])) THEN Ok(Some(Meta_deserialize(m["_meta"]).ok))
    ELSE Meta_deserialize(m["_meta"])

\* the members of SingleKindContext that are named fields
SingleKindFields == {"key", "name", "anonymous", "_meta"}

\* SingleKindContext without the flattened map: the other members are dropped
MutSingleKindContext_deserialize(m) ==
    IF ~IsOk(ReqString(m, "key")) THEN ReqString(m, "key")
    ELSE IF ~IsOk(OptString(m, "name")) THEN OptString(m, "name")
    ELSE IF ~IsOk(OptBool(m, "anonymous")) THEN OptBool(m, "anonymous")
    ELSE IF ~IsOk(OptMeta(m)) THEN OptMeta(m)
    ELSE Ok([key |-> ReqString(m, "key").ok,
             name |-> OptString(m, "name").ok,
             anonymous |-> OptBool(m, "anonymous").ok,
             attributes |-> EmptyMap,
             meta |-> OptMeta(m).ok])

\* SingleKindContext, derived Deserialize, from the members m of a map:
\* key, name, anonymous and _meta are taken; every other member is
\* collected by the flattened attributes map
SingleKindContext_deserialize(m) ==
    IF ~IsOk(ReqString(m, "key")) THEN ReqString(m, "key")
    ELSE IF ~IsOk(OptString(m, "name")) THEN OptString(m, "name")
    ELSE IF ~IsOk(OptBool(m, "anonymous")) THEN OptBool(m, "anonymous")
    ELSE IF ~IsOk(OptMeta(m)) THEN OptMeta(m)
    ELSE Ok([key |-> ReqString(m, "key").ok,
             name |-> OptString(m, "name").ok,
             anonymous |-> OptBool(m, "anonymous").ok,
             attributes |-> [k \in DOMAIN m \ SingleKindFields |-> AttributeValue_from(m[k])],
             meta |-> OptMeta(m).ok])

\* SingleKindStandaloneContext, derived Deserialize: kind is read as a Kind,
\* the remaining members go to the flattened SingleKindContext
SingleKindStandaloneContext_deserialize(m) ==
    IF ~IsOk(ReqString(m, "kind")) THEN ReqString(m, "kind")
    ELSE IF ~IsOk(Kind_try_from(m["kind"].str)) THEN Kind_try_from(m["kind"].str)
    ELSE IF ~IsOk(SingleKindContext_deserialize(Without(m, "kind")))
        THEN SingleKindContext_deserialize(Without(m, "kind"))
    ELSE Ok([kind |-> Kind_try_from(m["kind"].str).ok,
             context |-> SingleKindContext_deserialize(Without(m, "kind")).ok])

\* one entry of the flattened HashMap<Kind, SingleKindContext>
NestedEntryOk(k, v) ==
    /\ IsOk(Kind_try_from(k))
    /\ IsObj(v)
    /\ IsOk(SingleKindContext_deserialize(v.obj))

\* the flattened map skipping the members that do not parse as an entry
MutMultiKindContext_deserialize(m) ==
    IF ~IsOk(ReqString(m, "kind")) THEN ReqString(m, "kind")
    ELSE Ok([kind |-> m["kind"].str,
             contexts |-> [k \in {x \in DOMAIN m \ {"kind"} : NestedEntryOk(x, m[x])}
                              |-> SingleKindContext_deserialize(m[k].obj).ok]])

\* MultiKindContext, derived Deserialize: kind is a String, every other
\* member is an entry of the flattened map and must parse as one
MultiKindContext_deserialize(m) ==
    IF ~IsOk(ReqString(m, "kind")) THEN ReqString(m, "kind")
    ELSE IF \E k \in DOMAIN m \ {"kind"} : ~NestedEntryOk(k, m[k])
        THEN Err("invalid nested context")
    ELSE Ok([kind |-> m["kind"].str,
             contexts |-> [k \in DOMAIN m \ {"kind"} |-> SingleKindContext_deserialize(m[k].obj).ok]])

\* the Option<String> fields of UserFormat, by wire name (camelCase)
UserStringFields == {"name", "secondary", "firstName", "lastName", "avatar", "email", "country", "ip"}

\* Option<HashMap<String, AttributeValue>> member "custom"
OptCustom(m) ==
    IF "custom" \notin DOMAIN m \/ IsNull(m["custom"]) THEN Ok(None)
    ELSE IF IsObj(m["custom"])
        THEN Ok(Some([k \in DOMAIN m["custom"].obj |-> AttributeValue_from(m["custom"].obj[k])]))
    ELSE Err("invalid type: expected a map")

\* Option<Vec<AttributeName>> member "privateAttributeNames"
OptNames(m) ==
    LET r == OptStringVec(MemberOrNull(m, "privateAttributeNames"))
    IN  IF ~IsOk(r) THEN r
        ELSE IF IsSome(r.ok)
            THEN Ok(Some([i \in 1..Len(r.ok.some) |-> Reference_from(r.ok.some[i])]))
        ELSE Ok(None)

\* UserFormat, derived Deserialize: key is required, the recognized members
\* are optional and typed, every other member is ignored
UserFormat_deserialize(m) ==
    IF ~IsOk(ReqString(m, "key")) THEN ReqString(m, "key")
    ELSE IF \E f \in UserStringFields : ~IsOk(OptString(m, f))
        THEN Err("invalid type: expected a string")
    ELSE IF ~IsOk(OptBool(m, "anonymous")) THEN OptBool(m, "anonymous")
    ELSE IF ~IsOk(OptCustom(m)) THEN OptCustom(m)
    ELSE IF ~IsOk(OptNames(m)) THEN OptNames(m)
    ELSE Ok([key |-> m["key"].str,
             name |-> OptString(m, "name").ok,
             secondary |-> OptString(m, "secondary").ok,
             anonymous |-> OptBool(m, "anonymous").ok,
             custom |-> OptCustom(m).ok,
             private_attribute_names |-> OptNames(m).ok,
             first_name |-> OptString(m, "firstName").ok,
             last_name |-> OptString(m, "lastName").ok,
             avatar |-> OptString(m, "avatar").ok,
             email |-> OptString(m, "email").ok,
             country |-> OptString(m, "country").ok,
             ip |-> OptString(m, "ip").ok])

\* ------------------------------------------------------ the discriminator
\* the Tag without rename_all: "multi" is one more custom kind
MutTag_deserialize(v) ==
    LET k == IF IsObj(v) THEN MemberOrNull(v.obj, "kind") ELSE JNull
    IN  IF IsNull(k) THEN Ok(None)
        ELSE IF IsStr(k) THEN Ok(Some([Custom |-> k.str]))
        ELSE Err("invalid type: expected a field identifier")

\* Option::<Tag>::deserialize(&v["kind"]): indexing a value that has no such
\* member gives null, null reads as None, a string reads as Some(tag) and
\* any other type is an error
Tag_deserialize(v) ==
    LET k == IF IsObj(v) THEN MemberOrNull(v.obj, "kind") ELSE JNull
    IN  IF IsNull(k) THEN Ok(None)
        ELSE IF IsStr(k) THEN Ok(Some(IF k.str = "multi" THEN [Multi |-> TRUE] ELSE [Custom |-> k.str]))
        ELSE Err("invalid type: expected a field identifier")

\* v.get("kind").is_some()
HasKind(v) == IsObj(v) /\ "kind" \in DOMAIN v.obj

\* what the untagged enum of serde would do: Multi, then Single, then
\* Implicit, the first shape that parses
MutContextVariant_deserialize(v) ==
    IF ~IsObj(v) THEN Err("invalid type: expected a map")
    ELSE IF HasKind(v) /\ IsStr(v.obj["kind"]) /\ v.obj["kind"].str = "multi"
            /\ IsOk(MultiKindContext_deserialize(v.obj))
        THEN Ok([Multi |-> MultiKindContext_deserialize(v.obj).ok])
    ELSE IF IsOk(SingleKindStandaloneContext_deserialize(v.obj))
        THEN Ok([Single |-> SingleKindStandaloneContext_deserialize(v.obj).ok])
    ELSE IF IsOk(UserFormat_deserialize(v.obj))
        THEN Ok([Implicit |-> UserFormat_deserialize(v.obj).ok])
    ELSE Err("data did not match any variant")

\* impl Deserialize for ContextVariant
ContextVariant_deserialize(v) ==
    LET tag == Tag_deserialize(v)
    IN  IF ~IsOk(tag) THEN tag
        ELSE IF tag.ok = None /\ HasKind(v) THEN Err("context kind cannot be null")
        ELSE IF ~IsObj(v) THEN Err("invalid type: expected a map")
        ELSE IF tag.ok = None
            THEN IF IsOk(UserFormat_deserialize(v.obj))
                    THEN Ok([Implicit |-> UserFormat_deserialize(v.obj).ok])
                 ELSE UserFormat_deserialize(v.obj)
        ELSE IF "Multi" \in DOMAIN tag.ok.some
            THEN IF IsOk(MultiKindContext_deserialize(v.obj))
                    THEN Ok([Multi |-> MultiKindContext_deserialize(v.obj).ok])
                 ELSE MultiKindContext_deserialize(v.obj)
        ELSE IF tag.ok.some.Custom = "" THEN Err("context kind cannot be empty string")
        ELSE IF IsOk(SingleKindStandaloneContext_deserialize(v.obj))
            THEN Ok([Single |-> SingleKindStandaloneContext_deserialize(v.obj).ok])
        ELSE SingleKindStandaloneContext_deserialize(v.obj)

IsMulti(x) == "Multi" \in DOMAIN x
IsSingle(x) == "Single" \in DOMAIN x
IsImplicit(x) == "Implicit" \in DOMAIN x

\* ----------------------------------------------------------- the builders
ContextBuilder_new(key) ==
    [key |-> key, kind |-> "user", name |-> None, anonymous |-> FALSE,
     secondary |-> None, attributes |-> EmptyMap, private_attributes |-> <<>>,
     allow_empty_key |-> FALSE]

allow_empty_key(b) == [b EXCEPT !.allow_empty_key = TRUE]
kind(b, k) == [b EXCEPT !.kind = k]
name(b, s) == [b EXCEPT !.name = Some(s)]
anonymous(b, x) == [b EXCEPT !.anonymous = x]
secondary(b, s) == [b EXCEPT !.secondary = Some(s)]
add_private_attribute(b, r) == [b EXCEPT !.private_attributes = Append(@, r)]

\* set_value: the names kind, key, name and anonymous address the built-in
\* properties (a value of the wrong type is ignored), _meta is not settable,
\* any other name is an attribute
set_value(b, n, a) ==
    LET v == AttributeValue_json(a)
    IN  IF n = "kind" THEN (IF IsStr(v) THEN kind(b, v.str) ELSE b)
        ELSE IF n = "key" THEN (IF IsStr(v) THEN [b EXCEPT !.key = v.str] ELSE b)
        ELSE IF n = "name" THEN (IF IsStr(v) THEN name(b, v.str) ELSE b)
        ELSE IF n = "anonymous" THEN (IF IsBool(v) THEN anonymous(b, v.bool) ELSE b)
        ELSE IF n = "_meta" THEN b
        ELSE [b EXCEPT !.attributes = Put(@, n, a)]

set_string(b, n, s) == set_value(b, n, AttributeValue_from(JStr(s)))

\* ContextBuilder::build: the kind must be a valid single kind and the key
\* non-empty unless the builder was told to allow the empty key
ContextBuilder_build(b) ==
    IF ~IsOk(Kind_try_from(b.kind)) THEN Kind_try_from(b.kind)
    ELSE IF Kind_is_multi(b.kind)
        THEN Err("context of kind multi must be built with MultiContextBuilder")
    ELSE IF ~b.allow_empty_key /\ b.key = "" THEN Err("key cannot be empty")
    ELSE Ok([kind |-> b.kind, key |-> b.key, name |-> b.name,
             anonymous |-> b.anonymous, attributes |-> b.attributes,
             secondary |-> b.secondary,
             private_attributes |-> IF b.private_attributes = <<>> THEN None
                                    ELSE Some(b.private_attributes),
             contexts |-> None])

\* MultiContextBuilder: the contexts added so far, by kind
MultiContextBuilder_new == EmptyMap
add_context(mb, c) == Put(mb, c.kind, c)
MultiContextBuilder_build(mb) ==
    IF DOMAIN mb = {} THEN Err("multi-kind context must contain at least one nested context")
    ELSE Ok([kind |-> "multi", key |-> "", name |-> None, anonymous |-> FALSE,
             attributes |-> EmptyMap, secondary |-> None,
             private_attributes |-> None, contexts |-> Some(mb)])

\* ------------------------------------------- intermediate shape -> Context
\* the loop of build_context over the attributes map (the entries have
\* distinct names, so the order of the map's iteration does not show)
RECURSIVE SetValues(_, _, _)
SetValues(b, attrs, keys) ==
    IF keys = {} THEN b
    ELSE LET k == CHOOSE x \in keys : TRUE
         IN  SetValues(set_value(b, k, attrs[k]), attrs, keys \ {k})

\* the loops over a list of private attributes
RECURSIVE AddPrivate(_, _, _)
AddPrivate(b, refs, i) ==
    IF i > Len(refs) THEN b
    ELSE AddPrivate(add_private_attribute(b, refs[i]), refs, i + 1)

Strings2Refs(ss) == [i \in 1..Len(ss) |-> Reference_from(ss[i])]
Refs2Strings(rs) == [i \in 1..Len(rs) |-> Reference_string(rs[i])]

\* build_context without the loop over the private attributes
MutBuild_context(b, context) ==
    LET b1 == SetValues(b, context.attributes, DOMAIN context.attributes)
        b2 == IF IsSome(context.anonymous) THEN anonymous(b1, context.anonymous.some) ELSE b1
        b3 == IF IsSome(context.name) THEN name(b2, context.name.some) ELSE b2
    IN  IF IsSome(context.meta) /\ IsSome(context.meta.some.secondary)
            THEN secondary(b3, context.meta.some.secondary.some) ELSE b3

\* fn build_context
build_context(b, context) ==
    LET b1 == SetValues(b, context.attributes, DOMAIN context.attributes)
        b2 == IF IsSome(context.anonymous) THEN anonymous(b1, context.anonymous.some) ELSE b1
        b3 == IF IsSome(context.name) THEN name(b2, context.name.some) ELSE b2
        b4 == IF IsSome(context.meta) /\ IsSome(context.meta.some.secondary)
                  THEN secondary(b3, context.meta.some.secondary.some) ELSE b3
    IN  IF IsSome(context.meta) /\ IsSome(context.meta.some.private_attributes)
            THEN AddPrivate(b4, Strings2Refs(context.meta.some.private_attributes.some), 1)
        ELSE b4

\* no name is skipped
MutShould_skip_custom_attribute(attr_name) == FALSE

\* fn should_skip_custom_attribute
should_skip_custom_attribute(attr_name) ==
    attr_name \in {"kind", "key", "name", "anonymous", "_meta"}

\* the loop of build_context_from_implicit_user over the custom map
RECURSIVE SetCustom(_, _, _)
SetCustom(b, custom, keys) ==
    IF keys = {} THEN b
    ELSE LET k == CHOOSE x \in keys : TRUE
         IN  SetCustom(IF ~should_skip_custom_attribute(k) THEN set_value(b, k, custom[k]) ELSE b,
                       custom, keys \ {k})

SetStringIf(b, n, o) == IF IsSome(o) THEN set_string(b, n, o.some) ELSE b

\* the projection running the custom loop before the built-in attributes
MutCustomFirst_build_context_from_implicit_user(b, user) ==
    LET b1 == IF IsSome(user.anonymous) THEN anonymous(b, user.anonymous.some) ELSE b
        b2 == IF IsSome(user.secondary) THEN secondary(b1, user.secondary.some) ELSE b1
        b3 == IF IsSome(user.name) THEN name(b2, user.name.some) ELSE b2
        b4 == IF IsSome(user.custom) THEN SetCustom(b3, user.custom.some, DOMAIN user.custom.some) ELSE b3
        b5 == SetStringIf(b4, "avatar", user.avatar)
        b6 == SetStringIf(b5, "firstName", user.first_name)
        b7 == SetStringIf(b6, "lastName", user.last_name)
        b8 == SetStringIf(b7, "country", user.country)
        b9 == SetStringIf(b8, "email", user.email)
        b10 == SetStringIf(b9, "ip", user.ip)
    IN  IF IsSome(user.private_attribute_names)
            THEN AddPrivate(b10, user.private_attribute_names.some, 1)
        ELSE b10

\* the projection naming the attribute after the Rust field, first_name
MutBuild_context_from_implicit_user(b, user) ==
    LET b1 == IF IsSome(user.anonymous) THEN anonymous(b, user.anonymous.some) ELSE b
        b2 == IF IsSome(user.secondary) THEN secondary(b1, user.secondary.some) ELSE b1
        b3 == IF IsSome(user.name) THEN name(b2, user.name.some) ELSE b2
        b4 == SetStringIf(b3, "avatar", user.avatar)
        b5 == SetStringIf(b4, "first_name", user.first_name)
        b6 == SetStringIf(b5, "lastName", user.last_name)
        b7 == SetStringIf(b6, "country", user.country)
        b8 == SetStringIf(b7, "email", user.email)
        b9 == SetStringIf(b8, "ip", user.ip)
        b10 == IF IsSome(user.custom) THEN SetCustom(b9, user.custom.some, DOMAIN user.custom.some) ELSE b9
    IN  IF IsSome(user.private_attribute_names)
            THEN AddPrivate(b10, user.private_attribute_names.some, 1)
        ELSE b10

\* fn build_context_from_implicit_user
build_context_from_implicit_user(b, user) ==
    LET b1 == IF IsSome(user.anonymous) THEN anonymous(b, user.anonymous.some) ELSE b
        b2 == IF IsSome(user.secondary) THEN secondary(b1, user.secondary.some) ELSE b1
        b3 == IF IsSome(user.name) THEN name(b2, user.name.some) ELSE b2
        b4 == SetStringIf(b3, "avatar", user.avatar)
        b5 == SetStringIf(b4, "firstName", user.first_name)
        b6 == SetStringIf(b5, "lastName", user.last_name)
        b7 == SetStringIf(b6, "country", user.country)
        b8 == SetStringIf(b7, "email", user.email)
        b9 == SetStringIf(b8, "ip", user.ip)
        b10 == IF IsSome(user.custom) THEN SetCustom(b9, user.custom.some, DOMAIN user.custom.some) ELSE b9
    IN  IF IsSome(user.private_attribute_names)
            THEN AddPrivate(b10, user.private_attribute_names.some, 1)
        ELSE b10

\* one turn of the Multi arm's loop: the nested context of kind k
NestedBuild(m, k) ==
    ContextBuilder_build(kind(build_context(ContextBuilder_new(m.contexts[k].key), m.contexts[k]), k))

RECURSIVE AddContexts(_, _, _)
AddContexts(mb, m, keys) ==
    IF keys = {} THEN mb
    ELSE LET k == CHOOSE x \in keys : TRUE
         IN  AddContexts(add_context(mb, NestedBuild(m, k).ok), m, keys \ {k})

\* the Single arm allowing the empty key as the Implicit arm does
MutContext_try_from(variant) ==
    IF IsMulti(variant)
        THEN LET m == variant.Multi
                 bad == {k \in DOMAIN m.contexts : ~IsOk(NestedBuild(m, k))}
             IN  IF bad # {} THEN NestedBuild(m, CHOOSE k \in bad : TRUE)
                 ELSE MultiContextBuilder_build(AddContexts(MultiContextBuilder_new, m, DOMAIN m.contexts))
    ELSE IF IsSingle(variant)
        THEN ContextBuilder_build(
                 kind(build_context(allow_empty_key(ContextBuilder_new(variant.Single.context.key)),
                                    variant.Single.context),
                      variant.Single.kind))
    ELSE ContextBuilder_build(
             build_context_from_implicit_user(
                 allow_empty_key(ContextBuilder_new(variant.Implicit.key)), variant.Implicit))

\* impl TryFrom<ContextVariant> for Context.  In the Multi arm the first
\* nested build that fails ends the conversion with its error (which one
\* is first depends on the map's iteration order; only the failure counts)
Context_try_from(variant) ==
    IF IsMulti(variant)
        THEN LET m == variant.Multi
                 bad == {k \in DOMAIN m.contexts : ~IsOk(NestedBuild(m, k))}
             IN  IF bad # {} THEN NestedBuild(m, CHOOSE k \in bad : TRUE)
                 ELSE MultiContextBuilder_build(AddContexts(MultiContextBuilder_new, m, DOMAIN m.contexts))
    ELSE IF IsSingle(variant)
        THEN ContextBuilder_build(
                 kind(build_context(ContextBuilder_new(variant.Single.context.key),
                                    variant.Single.context),
                      variant.Single.kind))
    ELSE ContextBuilder_build(
             build_context_from_implicit_user(
                 allow_empty_key(ContextBuilder_new(variant.Implicit.key)), variant.Implicit))

\* ------------------------------------------- Context -> intermediate shape
\* the projection leaving anonymous and meta absent
MutSingle_kind_context_from(c) ==
    [kind |-> c.kind,
     context |-> [key |-> c.key, name |-> c.name, anonymous |-> None,
                  attributes |-> c.attributes, meta |-> None]]

\* fn single_kind_context_from: the pair (kind, SingleKindContext)
single_kind_context_from(c) ==
    [kind |-> c.kind,
     context |-> [key |-> c.key, name |-> c.name, anonymous |-> Some(c.anonymous),
                  attributes |-> c.attributes,
                  meta |-> Some([secondary |-> c.secondary,
                                 private_attributes |->
                                     IF IsSome(c.private_attributes)
                                         THEN Some(Refs2Strings(c.private_attributes.some))
                                     ELSE None])]]

Panic(msg) == [panic |-> msg]
IsPanic(x) == "panic" \in DOMAIN x

\* impl From<Context> for ContextVariant
ContextVariant_from(c) ==
    IF Kind_is_multi(c.kind)
        THEN IF ~IsSome(c.contexts)
                 THEN Panic("multi-kind context must contain at least one nested context")
             ELSE LET pairs == {single_kind_context_from(c.contexts.some[k]) : k \in DOMAIN c.contexts.some}
                  IN  [Multi |-> [kind |-> "multi",
                                  contexts |-> [k \in {p.kind : p \in pairs} |->
                                                   (CHOOSE p \in pairs : p.kind = k).context]]]
    ELSE [Single |-> single_kind_context_from(c)]

\* ------------------------------------------------------------ serializer
\* the skip_serializing_if predicates of context_serde_helpers
is_false_bool_option(o) == IsSome(o) => ~o.some
is_empty_vec_option(o) == IsSome(o) => o.some = <<>>
is_none_meta_option(o) ==
    IsSome(o) => (~IsSome(o.some.secondary) /\ is_empty_vec_option(o.some.private_attributes))

Member(cond, k, v) == IF cond THEN (k :> v) ELSE EmptyMap

\* Meta, derived Serialize
Meta_serialize(meta) ==
    JObj(Merge(Member(IsSome(meta.secondary), "secondary", JStr(meta.secondary.some)),
               Member(~is_empty_vec_option(meta.private_attributes), "privateAttributes",
                      JArr([i \in 1..Len(meta.private_attributes.some) |->
                               JStr(meta.private_attributes.some[i])]))))

\* SingleKindContext without skip_serializing_if on anonymous
MutSingleKindContext_members(s) ==
    Merge(Merge(Merge(Merge(
        "key" :> JStr(s.key),
        Member(IsSome(s.name), "name", JStr(s.name.some))),
        Member(IsSome(s.anonymous), "anonymous", JBool(s.anonymous.some))),
        [k \in DOMAIN s.attributes |-> AttributeValue_json(s.attributes[k])]),
        Member(~is_none_meta_option(s.meta), "_meta", Meta_serialize(s.meta.some)))

\* SingleKindContext, derived Serialize: the members it writes, in order
SingleKindContext_members(s) ==
    Merge(Merge(Merge(Merge(
        "key" :> JStr(s.key),
        Member(IsSome(s.name), "name", JStr(s.name.some))),
        Member(~is_false_bool_option(s.anonymous), "anonymous", JBool(s.anonymous.some))),
        [k \in DOMAIN s.attributes |-> AttributeValue_json(s.attributes[k])]),
        Member(~is_none_meta_option(s.meta), "_meta", Meta_serialize(s.meta.some)))

\* SingleKindStandaloneContext, derived Serialize
SingleKindStandaloneContext_serialize(s) ==
    JObj(Merge("kind" :> JStr(s.kind), SingleKindContext_members(s.context)))

\* MultiKindContext, derived Serialize
MultiKindContext_serialize(m) ==
    JObj(Merge("kind" :> JStr(m.kind),
               [k \in DOMAIN m.contexts |-> JObj(SingleKindContext_members(m.contexts[k]))]))

\* the Implicit arm writing the legacy shape
MutContextVariant_serialize(v) ==
    IF IsMulti(v) THEN MultiKindContext_serialize(v.Multi)
    ELSE IF IsSingle(v) THEN SingleKindStandaloneContext_serialize(v.Single)
    ELSE JObj("key" :> JStr(v.Implicit.key))

\* impl Serialize for ContextVariant
ContextVariant_serialize(v) ==
    IF IsMulti(v) THEN MultiKindContext_serialize(v.Multi)
    ELSE IF IsSingle(v) THEN SingleKindStandaloneContext_serialize(v.Single)
    ELSE Panic("cannot serialize implicit user contexts")

\* ------------------------------------------------------------ the inputs
\* longest list of private attributes in an input
MaxPrivate == 2
\* largest number of nested entries in a multi-kind input
MaxNested == 2

\* marks a member that an input does not have
Absent == [absent |-> TRUE]

\* member names that are not TLA+ field names
WireName(f) ==
    CASE f = "meta" -> "_meta"
      [] f = "unknown" -> "unknown-1"
      [] OTHER -> f

\* the JSON object with the members of r that are not Absent
MkObj(r) ==
    LET present == {f \in DOMAIN r : r[f] # Absent}
    IN  JObj([w \in {WireName(f) : f \in present} |->
                 r[CHOOSE f \in present : WireName(f) = w]])

PrivNames == {"a", "ip"}
\* the JSON arrays of at most MaxPrivate names
PrivArrs ==
    UNION {{JArr([i \in 1..n |-> JStr(q[i])]) : q \in [1..n -> PrivNames]} : n \in 0..MaxPrivate}

\* values of _meta: every combination of its members
MetaObjs ==
    {MkObj(r) : r \in [secondary : {Absent, JNull, JStr("s")},
                       privateAttributes : {Absent, JNull} \cup PrivArrs,
                       extra : {Absent, JNum(1)}]}
\* values of _meta that are not objects
MetaOdd ==
    {JNull, JStr("string"), JArr(<<JStr("s")>>),
     JArr(<<JStr("s"), JArr(<<JStr("a")>>)>>)}
MetaFew ==
    {Absent, JNull, JStr("string"), JObj(EmptyMap), JObj("secondary" :> JStr("s")),
     JObj("privateAttributes" :> JArr(<<JStr("a")>>))}

\* single-kind inputs: kind a string, the named members of every type
SingleCore ==
    {MkObj(r) : r \in [kind : {JStr(""), JStr("kind"), JStr("user"), JStr("org")},
                       key : {Absent, JStr(""), JStr("a"), JNum(1)},
                       name : {Absent, JNull, JStr("n"), JNum(1)},
                       anonymous : {Absent, JNull, JBool(FALSE), JBool(TRUE)},
                       meta : MetaFew,
                       a : {Absent, JStr("b")},
                       firstName : {Absent, JStr("f")}]}

\* single-kind inputs: every _meta
SingleMeta ==
    {MkObj(r) : r \in [kind : {JStr("org")},
                       key : {JStr("a")},
                       name : {Absent, JStr("n")},
                       anonymous : {Absent, JBool(TRUE)},
                       meta : MetaObjs \cup MetaOdd,
                       object : {Absent, JObj("a" :> JStr("b"))}]}

\* inputs whose kind is present and not a string
BadKind ==
    {MkObj(r) : r \in [kind : {JNull, JBool(TRUE), JNum(1), JArr(<<>>), JObj(EmptyMap)},
                       key : {Absent, JStr("a")},
                       name : {Absent, JStr("n")},
                       custom : {Absent, JObj("a" :> JStr("b"))},
                       meta : {Absent, JObj(EmptyMap)}]}

\* the custom map of the reserved-names test
ReservedCustom ==
    JObj(("kind" :> JStr(".")) @@ ("key" :> JStr(".")) @@ ("name" :> JStr("."))
         @@ ("anonymous" :> JBool(TRUE)) @@ ("_meta" :> JBool(TRUE)) @@ ("a" :> JNum(1)))

\* legacy inputs: no kind, the top-level members of every type
LegacyCore ==
    {MkObj(r) : r \in [key : {Absent, JStr(""), JStr("a")},
                       name : {Absent, JStr("n"), JNum(1)},
                       anonymous : {Absent, JBool(FALSE), JBool(TRUE)},
                       secondary : {Absent, JStr("s")},
                       privateAttributeNames : {Absent, JArr(<<>>), JArr(<<JStr("ip")>>)},
                       custom : {Absent, JNull, JStr("x"), JObj("a" :> JStr("b")), ReservedCustom},
                       ip : {Absent, JStr("1")},
                       meta : {Absent, JObj("secondary" :> JStr("m"))},
                       unknown : {Absent, JStr("ignored")}]}

\* legacy inputs: every custom map over the reserved names and two others
LegacyCustom ==
    {MkObj(r) : r \in [key : {JStr(""), JStr("a")},
                       name : {Absent, JStr("n")},
                       anonymous : {Absent, JBool(FALSE)},
                       firstName : {Absent, JStr("f")},
                       custom : {MkObj(c) : c \in [kind : {Absent, JStr("org")},
                                                   key : {Absent, JStr("k")},
                                                   name : {Absent, JStr("c")},
                                                   anonymous : {Absent, JBool(TRUE)},
                                                   meta : {Absent, JObj("secondary" :> JStr("m"))},
                                                   a : {Absent, JNum(1)},
                                                   firstName : {Absent, JStr("g")}]}]}

\* legacy inputs: every combination of the built-in attributes
LegacyBuiltins ==
    {MkObj(r) : r \in [key : {JStr("a")},
                       firstName : {Absent, JStr("f")},
                       lastName : {Absent, JStr("l")},
                       avatar : {Absent, JStr("v")},
                       country : {Absent, JStr("c")},
                       email : {Absent, JStr("e")},
                       ip : {Absent, JStr("1")},
                       custom : {Absent, JObj("email" :> JNum(1))},
                       privateAttributeNames : {Absent} \cup PrivArrs]}

\* the values of the members of a multi-kind input
NestedVals ==
    {MkObj(r) : r \in [key : {Absent, JStr(""), JStr("k")},
                       anonymous : {Absent, JBool(TRUE)}]}
    \cup {JStr("a"),
          MkObj([key |-> JStr("k"), anonymous |-> JBool(FALSE)]),
          MkObj([key |-> JStr("k"), name |-> JStr("n"), kind |-> JStr("x")]),
          MkObj([key |-> JStr("k"), a |-> JStr("b"),
                 meta |-> JObj(("secondary" :> JStr("s"))
                               @@ ("privateAttributes" :> JArr(<<JStr("a")>>)))])}

MultiKeys == {"org", "user", "key", "multi"}

\* multi-kind inputs: at most MaxNested members besides kind
Multi ==
    UNION {{JObj(("kind" :> JStr("multi")) @@ f) : f \in [S -> NestedVals]} :
               S \in {T \in SUBSET MultiKeys : Cardinality(T) <= MaxNested}}

Inputs ==
    SingleCore \cup SingleMeta \cup BadKind \cup LegacyCore \cup LegacyCustom
        \cup LegacyBuiltins \cup Multi

\* ------------------------------------------------------ the state machine
VARIABLES
    json,      \* the document being decoded
    variant,   \* the result of ContextVariant::deserialize
    ctx,       \* the result of Context::try_from
    proj,      \* the ContextVariant the Context is projected onto
    out,       \* the JSON that serialization wrote, or the panic
    pc,        \* the step reached
    round,     \* 1: the input, 2: the encoded output decoded again
    json0,     \* the input of round 1
    ctx0       \* the Context of round 1

vars == <<json, variant, ctx, proj, out, pc, round, json0, ctx0>>

NotYet == [notyet |-> TRUE]

Init ==
    /\ json \in Inputs
    /\ json0 = json
    /\ variant = NotYet
    /\ ctx = NotYet
    /\ proj = NotYet
    /\ out = NotYet
    /\ ctx0 = NotYet
    /\ pc = "start"
    /\ round = 1

\* serde_json::from_value::<ContextVariant>
Deserialize ==
    /\ pc = "start"
    /\ variant' = ContextVariant_deserialize(json)
    /\ pc' = "parsed"
    /\ UNCHANGED <<json, ctx, proj, out, round, json0, ctx0>>

\* Context::try_from(variant)
TryFrom ==
    /\ pc = "parsed"
    /\ IsOk(variant)
    /\ ctx' = Context_try_from(variant.ok)
    /\ pc' = "converted"
    /\ UNCHANGED <<json, variant, proj, out, round, json0, ctx0>>

\* serializing the parsed ContextVariant itself
SerializeParsed ==
    /\ pc = "parsed"
    /\ round = 1
    /\ IsOk(variant)
    /\ out' = ContextVariant_serialize(variant.ok)
    /\ pc' = "dumped"
    /\ UNCHANGED <<json, variant, ctx, proj, round, json0, ctx0>>

\* ContextVariant::from(context)
From ==
    /\ pc = "converted"
    /\ IsOk(ctx)
    /\ proj' = ContextVariant_from(ctx.ok)
    /\ pc' = "projected"
    /\ UNCHANGED <<json, variant, ctx, out, round, json0, ctx0>>

\* serializing the projected ContextVariant
Serialize ==
    /\ pc = "projected"
    /\ ~IsPanic(proj)
    /\ out' = ContextVariant_serialize(proj)
    /\ pc' = "encoded"
    /\ UNCHANGED <<json, variant, ctx, proj, round, json0, ctx0>>

\* the encoded output is handed back to the decoder
Redecode ==
    /\ pc = "encoded"
    /\ round = 1
    /\ ~IsPanic(out)
    /\ json' = out
    /\ ctx0' = ctx.ok
    /\ round' = 2
    /\ variant' = NotYet
    /\ ctx' = NotYet
    /\ pc' = "start"
    /\ UNCHANGED <<proj, out, json0>>

Next ==
    \/ Deserialize
    \/ TryFrom
    \/ SerializeParsed
    \/ From
    \/ Serialize
    \/ Redecode

Spec == Init /\ [][Next]_vars

\* the shapes of the values the steps leave behind
TypeOK ==
    /\ IsObj(json)
    /\ pc \in {"start", "parsed", "converted", "projected", "encoded", "dumped"}
    /\ round \in {1, 2}
    /\ (pc = "start") => variant = NotYet
    /\ (pc # "start") => (IsOk(variant) \/ "err" \in DOMAIN variant)

\* ------------------------------------------------------------ the claims
\* the current document has been decoded into a Context
DecodeOk == IsOk(ctx)
\* the members of the current document / of the input of round 1
Doc == json.obj
Doc0 == json0.obj
\* the document has a kind that is a string
IsModern(j) == HasKind(j) /\ IsStr(j.obj["kind"])
IsLegacy(j) == ~HasKind(j)
KindIs(j, s) == HasKind(j) /\ j.obj["kind"] = JStr(s)
Reserved == {"kind", "key", "name", "anonymous", "_meta"}

\* C1 (as stated): whenever an encoded Context is decoded again, the decode
\* succeeds and gives the Context that was encoded
C1_Original ==
    (round = 2 /\ pc = "converted") => ctx = Ok(ctx0)

\* C1 (amended): decode(encode(C)) succeeds and equals C for every Context C
\* that decode produced, except the single-kind Context with the empty key
\* (which only the legacy shape can produce); the encoded output always
\* parses as a modern shape
C1_IdempotentUnlessEmptyKey ==
    /\ (round = 2 /\ pc = "parsed") => (IsOk(variant) /\ ~IsImplicit(variant.ok))
    /\ (round = 2 /\ pc = "converted" /\ (Kind_is_multi(ctx0.kind) \/ ctx0.key # ""))
           => ctx = Ok(ctx0)
    /\ (round = 2 /\ pc = "converted" /\ ~Kind_is_multi(ctx0.kind) /\ ctx0.key = "")
           => ~IsOk(ctx)

C1_Witness ==
    /\ round = 2 /\ pc = "converted" /\ ctx = Ok(ctx0)
    /\ IsLegacy(json0)
    /\ IsSome(ctx0.secondary) /\ IsSome(ctx0.private_attributes)
    /\ DOMAIN ctx0.attributes # {}

\* the members of m without anonymous: false and without an empty _meta
DropDefaultsOf(m) ==
    [k \in {x \in DOMAIN m : /\ ~(x = "anonymous" /\ m[x] = JBool(FALSE))
                             /\ ~(x = "_meta" /\ m[x] = JObj(EmptyMap))} |-> m[k]]
DropDefaults(j) ==
    IF KindIs(j, "multi")
        THEN JObj([k \in DOMAIN j.obj |->
                      IF k # "kind" /\ IsObj(j.obj[k]) THEN JObj(DropDefaultsOf(j.obj[k].obj))
                      ELSE j.obj[k]])
    ELSE JObj(DropDefaultsOf(j.obj))

CanonMeta(v) ==
    LET sv == IF IsObj(v) THEN MemberOrNull(v.obj, "secondary") ELSE v.arr[1]
        pv == IF IsObj(v) THEN MemberOrNull(v.obj, "privateAttributes") ELSE v.arr[2]
    IN  Merge(Member(IsStr(sv), "secondary", sv),
              Member(IsArr(pv) /\ pv # JArr(<<>>), "privateAttributes", pv))
\* the members of a single-kind object less those that decode as absent or
\* as the default
CanonMembers(m) ==
    LET keep == {x \in DOMAIN m :
                    /\ ~(x \in {"name", "anonymous", "_meta"} /\ IsNull(m[x]))
                    /\ ~(x = "anonymous" /\ m[x] = JBool(FALSE))
                    /\ ~(x = "_meta" /\ ~IsNull(m[x]) /\ CanonMeta(m[x]) = EmptyMap)}
    IN  [k \in keep |-> IF k = "_meta" THEN JObj(CanonMeta(m[k])) ELSE m[k]]
Canon(j) ==
    IF KindIs(j, "multi")
        THEN JObj([k \in DOMAIN j.obj |->
                      IF k = "kind" THEN j.obj[k]
                      ELSE JObj(CanonMembers(Without(j.obj[k].obj, "kind")))])
    ELSE JObj(CanonMembers(j.obj))

C3_StrictKind ==
    (HasKind(json) /\ ~IsStr(Doc["kind"])) =>
        /\ ~IsOk(variant)
        /\ ~DecodeOk
        /\ pc \in {"start", "parsed"}

C3_Witness ==
    /\ pc = "parsed"
    /\ HasKind(json) /\ Doc["kind"] = JBool(TRUE)
    /\ "key" \in DOMAIN Doc /\ "custom" \in DOMAIN Doc
    /\ "err" \in DOMAIN variant

\* C4: the variant a document parses into is decided by kind alone: absent
\* gives Implicit, "multi" gives Multi, "" and "kind" give an error, any other
\* string gives Single; a parsed variant is exactly one of the three
C4_ShapeByKind ==
    (pc # "start") =>
        /\ IsOk(variant) =>
              /\ Cardinality(DOMAIN variant.ok) = 1
              /\ IsLegacy(json) => IsImplicit(variant.ok)
              /\ KindIs(json, "multi") => IsMulti(variant.ok)
              /\ (IsModern(json) /\ ~KindIs(json, "multi")) => IsSingle(variant.ok)
              /\ IsLegacy(json) \/ IsModern(json)
        /\ (KindIs(json, "") \/ KindIs(json, "kind")) => ~IsOk(variant)

C4_Witness ==
    /\ pc = "parsed" /\ round = 1 /\ KindIs(json, "user")
    /\ "firstName" \in DOMAIN Doc
    /\ IsOk(variant) /\ IsSingle(variant.ok)

\* the legacy members that become string attributes, by wire name
Builtins == {"firstName", "lastName", "avatar", "country", "email", "ip"}
HasStr(m, k) == k \in DOMAIN m /\ IsStr(m[k])
\* the entries of the legacy custom map that are not reserved names
CustomOf(m) ==
    IF "custom" \in DOMAIN m /\ IsObj(m["custom"])
        THEN [k \in DOMAIN m["custom"].obj \ Reserved |-> m["custom"].obj[k]]
    ELSE EmptyMap
HasNames(m) ==
    /\ "privateAttributeNames" \in DOMAIN m
    /\ IsArr(m["privateAttributeNames"])
    /\ m["privateAttributeNames"] # JArr(<<>>)
\* the _meta of the projection table
LegacyMeta(m) ==
    Merge(Member(HasStr(m, "secondary"), "secondary", m["secondary"]),
          Member(HasNames(m), "privateAttributes", m["privateAttributeNames"]))

LegacyProjection(m) ==
    Merge(Merge(Merge(Merge(Merge(
        ("kind" :> JStr("user")) @@ ("key" :> m["key"]),
        Member(HasStr(m, "name"), "name", m["name"])),
        Member("anonymous" \in DOMAIN m /\ m["anonymous"] = JBool(TRUE), "anonymous", JBool(TRUE))),
        [f \in {x \in Builtins : HasStr(m, x)} |-> m[f]]),
        CustomOf(m)),
        Member(LegacyMeta(m) # EmptyMap, "_meta", JObj(LegacyMeta(m))))

StripReserved(j) ==
    JObj([k \in DOMAIN j.obj |-> IF k = "custom" THEN JObj(CustomOf(j.obj)) ELSE j.obj[k]])
HasReservedCustom(j) ==
    /\ IsLegacy(j)
    /\ "custom" \in DOMAIN j.obj /\ IsObj(j.obj["custom"])
    /\ DOMAIN j.obj["custom"].obj \cap Reserved # {}

\* C6: a legacy input whose custom map has reserved names decodes exactly
\* when it does without them; kind, key, name and anonymous of the Context
\* and kind, key, name, anonymous and _meta of the output are those of the
\* top-level members, and no reserved name is an attribute
C6_ReservedIsolation ==
    (round = 1 /\ HasReservedCustom(json0)) =>
        LET m == Doc0
            plain == ContextVariant_deserialize(StripReserved(json0))
        IN  /\ (pc # "start") => (IsOk(variant) <=> IsOk(plain))
            /\ (pc = "converted") =>
                  /\ IsOk(ctx)
                  /\ ctx = Context_try_from(plain.ok)
                  /\ ctx.ok.kind = "user"
                  /\ ctx.ok.key = m["key"].str
                  /\ ctx.ok.name = OptString(m, "name").ok
                  /\ ctx.ok.anonymous = ("anonymous" \in DOMAIN m /\ m["anonymous"] = JBool(TRUE))
                  /\ DOMAIN ctx.ok.attributes \cap Reserved = {}
            /\ (pc = "encoded") =>
                  /\ out.obj["kind"] = JStr("user")
                  /\ out.obj["key"] = m["key"]
                  /\ ("name" \in DOMAIN out.obj) <=> HasStr(m, "name")
                  /\ HasStr(m, "name") => out.obj["name"] = m["name"]
                  /\ ("anonymous" \in DOMAIN out.obj)
                         <=> ("anonymous" \in DOMAIN m /\ m["anonymous"] = JBool(TRUE))
                  /\ ("_meta" \in DOMAIN out.obj) <=> (LegacyMeta(m) # EmptyMap)
                  /\ LegacyMeta(m) # EmptyMap => out.obj["_meta"] = JObj(LegacyMeta(m))

C6_Witness ==
    /\ round = 1 /\ pc = "encoded" /\ HasReservedCustom(json0)
    /\ Reserved \subseteq DOMAIN Doc0["custom"].obj
    /\ HasStr(Doc0, "name") /\ Doc0["custom"].obj["name"] # Doc0["name"]
    /\ out.obj["name"] = Doc0["name"]
    /\ "anonymous" \notin DOMAIN out.obj

EmptyKeyDoc == JObj("key" :> JStr(""))
EmptyKeyUser == JObj(("kind" :> JStr("user")) @@ ("key" :> JStr("")))

\* C7: a single-kind document without key or with the empty key never
\* decodes; a legacy document without key never decodes; a legacy document
\* with the empty key that parses becomes the Context of kind "user" and key
\* "", and {"key": ""} is encoded as {"kind": "user", "key": ""}; a
\* single-kind Context with the empty key comes from the Implicit arm only
C7_KeyRule ==
    /\ (IsModern(json) /\ ~KindIs(json, "multi")
            /\ ("key" \notin DOMAIN Doc \/ Doc["key"] = JStr("")))
           => (~DecodeOk /\ pc \in {"start", "parsed", "converted", "dumped"})
    /\ (IsLegacy(json) /\ "key" \notin DOMAIN Doc)
           => (~IsOk(variant) /\ ~DecodeOk)
    /\ (IsLegacy(json) /\ "key" \in DOMAIN Doc /\ Doc["key"] = JStr("") /\ pc = "converted")
           => (IsOk(ctx) /\ ctx.ok.kind = "user" /\ ctx.ok.key = "")
    /\ (json0 = EmptyKeyDoc /\ round = 1 /\ pc = "encoded") => out = EmptyKeyUser
    /\ (DecodeOk /\ ~Kind_is_multi(ctx.ok.kind) /\ ctx.ok.key = "") => IsImplicit(variant.ok)

C7_Witness ==
    /\ round = 2 /\ pc = "converted"
    /\ json0 = EmptyKeyDoc /\ json = EmptyKeyUser
    /\ ctx0.key = "" /\ ctx0.kind = "user"
    /\ IsOk(variant) /\ IsSingle(variant.ok)
    /\ ~IsOk(ctx)

\* the value of a member of a multi-kind document parses as a nested
\* single-kind context
ParsesAsNested(v) == IsObj(v) /\ IsOk(SingleKindContext_deserialize(v.obj))

\* C8: a document of kind "multi" never decodes when it has no member
\* besides kind or when some member besides kind is not an object that
\* parses as a nested single-kind context; a decoded multi-kind Context
\* holds at least one nested context
C8_MultiNonEmpty ==
    /\ (KindIs(json, "multi") /\ DOMAIN Doc = {"kind"})
           => (~DecodeOk /\ pc \in {"start", "parsed", "converted", "dumped"})
    /\ (KindIs(json, "multi") /\ \E k \in DOMAIN Doc \ {"kind"} : ~ParsesAsNested(Doc[k]))
           => (~IsOk(variant) /\ ~DecodeOk /\ pc \in {"start", "parsed"})
    /\ (DecodeOk /\ Kind_is_multi(ctx.ok.kind))
           => (IsSome(ctx.ok.contexts) /\ DOMAIN ctx.ok.contexts.some # {})

C8_Witness ==
    /\ pc = "converted" /\ round = 1
    /\ json = JObj("kind" :> JStr("multi"))
    /\ IsOk(variant) /\ IsMulti(variant.ok)
    /\ ~IsOk(ctx)

HasStringKind(j) == IsObj(j) /\ "kind" \in DOMAIN j.obj /\ IsStr(j.obj["kind"])

\* C9: a Context is projected onto the Multi variant if its kind is multi
\* and onto the Single variant otherwise, never onto Implicit; the encoded
\* output has the string kind "multi", respectively the Context's kind;
\* serializing a parsed Implicit variant panics and writes no JSON
C9_NeverLegacy ==
    /\ (pc \in {"projected", "encoded"}) =>
          /\ ~IsPanic(proj) /\ ~IsImplicit(proj)
          /\ IF Kind_is_multi(ctx.ok.kind) THEN IsMulti(proj) ELSE IsSingle(proj)
    /\ (pc = "encoded") =>
          /\ HasStringKind(out)
          /\ out.obj["kind"] = JStr(IF Kind_is_multi(ctx.ok.kind) THEN "multi" ELSE ctx.ok.kind)
    /\ (pc = "dumped") =>
          IF IsImplicit(variant.ok) THEN IsPanic(out) ELSE HasStringKind(out)

C9_Witness ==
    /\ pc = "dumped"
    /\ IsImplicit(variant.ok) /\ variant.ok.Implicit.key = "a"
    /\ IsSome(variant.ok.Implicit.name)
    /\ IsPanic(out)

HasPrivate(c) == IsSome(c.private_attributes) /\ c.private_attributes.some # <<>>

\* the members o written for the single-kind Context c are canonical
CanonicalFor(o, c) ==
    /\ ("name" \in DOMAIN o) <=> IsSome(c.name)
    /\ ("anonymous" \in DOMAIN o) <=> c.anonymous
    /\ c.anonymous => o["anonymous"] = JBool(TRUE)
    /\ ("_meta" \in DOMAIN o) <=> (IsSome(c.secondary) \/ HasPrivate(c))
    /\ ("_meta" \in DOMAIN o) =>
          /\ IsObj(o["_meta"])
          /\ ("secondary" \in DOMAIN o["_meta"].obj) <=> IsSome(c.secondary)
          /\ ("privateAttributes" \in DOMAIN o["_meta"].obj) <=> HasPrivate(c)

\* C10: in every encoded single-kind object, standalone or nested, name is
\* written iff the Context has a name, anonymous iff it is true, _meta iff
\* there is a secondary or a non-empty list of private attributes, and
\* inside _meta secondary iff present and privateAttributes iff non-empty
C10_Canonical ==
    (pc = "encoded") =>
        IF Kind_is_multi(ctx.ok.kind)
            THEN \A k \in DOMAIN ctx.ok.contexts.some :
                     /\ k \in DOMAIN out.obj
                     /\ IsObj(out.obj[k])
                     /\ CanonicalFor(out.obj[k].obj, ctx.ok.contexts.some[k])
        ELSE CanonicalFor(out.obj, ctx.ok)

C10_Witness ==
    /\ pc = "encoded" /\ round = 1 /\ Kind_is_multi(ctx.ok.kind)
    /\ \E k \in DOMAIN ctx.ok.contexts.some :
           /\ "_meta" \in DOMAIN out.obj[k].obj
           /\ "anonymous" \notin DOMAIN out.obj[k].obj
    /\ \E k \in DOMAIN ctx.ok.contexts.some :
           /\ "_meta" \notin DOMAIN out.obj[k].obj
           /\ "anonymous" \in DOMAIN Doc0[k].obj
           /\ "anonymous" \notin DOMAIN out.obj[k].obj

\* the members that UserFormat reads, by wire name
LegacyFields ==
    {"key", "name", "secondary", "anonymous", "custom", "privateAttributeNames",
     "firstName", "lastName", "avatar", "email", "country", "ip"}
\* the document with only the members that UserFormat reads
KnownOnly(j) == JObj([k \in DOMAIN j.obj \cap LegacyFields |-> j.obj[k]])
\* the members of a single-kind object that are not reserved names, as
\* attributes
OtherMembers(m) == [k \in DOMAIN m \ Reserved |-> AttributeValue_from(m[k])]

\* C11: a legacy document parses and converts exactly as it does without
\* the members UserFormat does not read, none of which becomes an attribute
\* or sets a property; in a decoded single-kind document and in every nested
\* entry of a decoded multi-kind document the attributes of the Context are
\* exactly the members other than kind, key, name, anonymous and _meta, with
\* their values
C11_UnknownFieldRouting ==
    /\ (IsLegacy(json) /\ pc # "start") =>
          /\ variant = ContextVariant_deserialize(KnownOnly(json))
          /\ (pc = "converted") =>
                /\ ctx = Context_try_from(ContextVariant_deserialize(KnownOnly(json)).ok)
                /\ IsOk(ctx)
                /\ \A k \in DOMAIN Doc \ LegacyFields :
                       k \notin DOMAIN CustomOf(Doc) => k \notin DOMAIN ctx.ok.attributes
                /\ ctx.ok.secondary = OptString(Doc, "secondary").ok
    /\ (IsModern(json) /\ ~KindIs(json, "multi") /\ DecodeOk) =>
          ctx.ok.attributes = OtherMembers(Doc)
    /\ (KindIs(json, "multi") /\ DecodeOk) =>
          /\ DOMAIN ctx.ok.contexts.some = DOMAIN Doc \ {"kind"}
          /\ \A k \in DOMAIN Doc \ {"kind"} :
                 ctx.ok.contexts.some[k].attributes = OtherMembers(Doc[k].obj)

C11_Witness ==
    /\ round = 1 /\ pc = "converted" /\ IsLegacy(json)
    /\ {"unknown-1", "_meta", "ip"} \subseteq DOMAIN Doc
    /\ "secondary" \notin DOMAIN Doc
    /\ IsOk(ctx)
    /\ DOMAIN ctx.ok.attributes = {"ip"}
    /\ ctx.ok.secondary = None

\* the raw custom map of a legacy document
RawCustom(m) ==
    IF "custom" \in DOMAIN m /\ IsObj(m["custom"]) THEN m["custom"].obj ELSE EmptyMap

\* C12: in the Context of a legacy document every custom entry whose name
\* is not reserved is the attribute of that name, also when a built-in
\* top-level member (avatar, firstName, lastName, country, email, ip) has the
\* same name, whose value is then lost; a built-in without such an entry is
\* the string attribute; a custom entry with a reserved name is no attribute
C12_CustomPrecedence ==
    (IsLegacy(json) /\ pc = "converted" /\ IsOk(ctx)) =>
        LET m == Doc
            a == ctx.ok.attributes
        IN  /\ \A k \in DOMAIN RawCustom(m) \ Reserved :
                   k \in DOMAIN a /\ a[k] = AttributeValue_from(RawCustom(m)[k])
            /\ \A f \in Builtins \ DOMAIN RawCustom(m) :
                   HasStr(m, f) => (f \in DOMAIN a /\ a[f] = AttributeValue_from(m[f]))
            /\ \A k \in DOMAIN RawCustom(m) \cap Reserved : k \notin DOMAIN a
            /\ DOMAIN a = (DOMAIN RawCustom(m) \ Reserved) \cup {f \in Builtins : HasStr(m, f)}

C12_Witness ==
    /\ round = 1 /\ pc = "converted" /\ IsLegacy(json) /\ IsOk(ctx)
    /\ HasStr(Doc, "email") /\ "email" \in DOMAIN RawCustom(Doc)
    /\ HasStr(Doc, "ip") /\ "ip" \notin DOMAIN RawCustom(Doc)
    /\ ctx.ok.attributes["email"] = AttributeValue_from(RawCustom(Doc)["email"])
    /\ ctx.ok.attributes["email"] # AttributeValue_from(Doc["email"])
    /\ ctx.ok.attributes["ip"] = AttributeValue_from(Doc["ip"])

====
